---- MODULE Spec2Model ----
(***************************************************************************)
(* Ingestion orchestration of navchetna/rag-app: the Status Store          *)
(* (app/models.py), batch submission (app/routes/ingest.py), the           *)
(* background pipeline (app/background_tasks.py), the status query         *)
(* (app/routes/status.py) and the manual add path (app/routes/batches.py). *)
(*                                                                         *)
(* One step of the model is the code that runs between two database        *)
(* commits or two suspension points (await) of the pipeline coroutine.     *)
(* Request handlers run on the same event loop, so they take their steps   *)
(* only where the pipeline coroutine is suspended (HandlerCanRun).         *)
(***************************************************************************)
EXTENDS Integers, Sequences, FiniteSets, TLC

(* ---------------------------------------------------------------- bounds *)

\* Largest poll budget (max_retries of _monitor_parsing_status) explored.
MaxRetries == 2

(* ------------------------------------------------------------ vocabulary *)

\* Python's None, and a key that is absent from an upstream JSON response.
None == "None"
Missing == "<missing>"

\* app/models.py: the IngestionStatus enum.
QUEUED == "queued"
PARSING == "parsing"
PARSED == "parsed"
PREPARING == "preparing"
COMPLETED == "completed"
FAILED == "failed"
IngestionStatus == {QUEUED, PARSING, PARSED, PREPARING, COMPLETED, FAILED}

\* Identifiers the parsing service hands out.
BatchIds == {"b1", "b2"}
FileIds == {"f1", "f2", "f3"}

\* The uploads of one request (files), by filename.
Uploads ==
    {<<"a.pdf">>, <<"a.pdf", "b.pdf">>, <<"a.pdf", "b.pdf", "c.pdf">>,
     <<"notes.txt">>, <<"a.pdf", "notes.txt">>, <<"a.pdf", "b.pdf", "notes.txt">>}

\* filename.lower().endswith('.pdf')
IsPdf(filename) == filename \in {"a.pdf", "b.pdf", "c.pdf", "z.pdf"}

\* What submit_batch_job can come back with: it raises, or it returns
\* (batch_job_id, batch_job_file_ids); the id may be absent and the list of
\* file ids need not be as long as the uploads. The service's file ids are
\* unique, so no list repeats one.
SubmitOutcomes ==
    {[raises |-> TRUE, batch_job_id |-> None, batch_job_file_ids |-> <<>>]} \cup
    [raises : {FALSE}, batch_job_id : {None, "b1"},
     batch_job_file_ids : {<<>>, <<"f1">>, <<"f1", "f2">>, <<"f1", "f2", "f3">>}]

\* What check_parsing_status can come back with: a JSON body whose keys may be
\* absent, or a transport error.
OutputPath == "/out/parsed"
UpstreamError == "upstream error"
TransportError == "transport error"
DataprepError == "dataprep error"

RespPending == [raises |-> FALSE, status |-> "pending", output_path |-> Missing, error |-> Missing]
RespInProgress == [raises |-> FALSE, status |-> "in_progress", output_path |-> Missing, error |-> Missing]
RespCompleted == [raises |-> FALSE, status |-> "completed", output_path |-> OutputPath, error |-> Missing]
RespCompletedNoPath == [raises |-> FALSE, status |-> "completed", output_path |-> Missing, error |-> Missing]
RespFailed == [raises |-> FALSE, status |-> "failed", output_path |-> Missing, error |-> UpstreamError]
RespRaises == [raises |-> TRUE, status |-> Missing, output_path |-> Missing, error |-> TransportError]
StatusResponses == {RespPending, RespInProgress, RespCompleted, RespCompletedNoPath, RespFailed, RespRaises}

\* dict.get(key, default) / dict.get(key) of a JSON body.
Get(resp, key, default) == IF resp[key] = Missing THEN default ELSE resp[key]

\* str(e) of the exceptions the pipeline raises itself.
ParsingFailedMsg(error_msg) == "Parsing failed: " \o error_msg
TimeoutMsg(filename) == "Parsing timeout for " \o filename

(* ----------------------------------------------------------------- state *)

VARIABLES
    jobs,         \* ingestion_jobs: batch_job_id -> row, or NoRow
    files,        \* ingestion_files: batch_job_file_id -> row, or NoRow
    max_retries,  \* the poll budget of _monitor_parsing_status
    pipe,         \* the process_ingestion_pipeline task: position and locals
    checks,       \* history: per file, the status responses received so far
    prep,         \* history: per file, the outcomes of the pipeline's ingest_document calls
    manual,       \* the add_files_to_qdrant request in progress, if any
    reply         \* the response sent by the step just taken, if it sent one

vars == <<jobs, files, max_retries, pipe, manual, checks, prep, reply>>

NoRow == [absent |-> TRUE]
Reply(op, code, batch_job_id, status, successful, failed) ==
    [op |-> op, code |-> code, batch_job_id |-> batch_job_id, status |-> status,
     successful |-> successful, failed |-> failed]
NoReply == Reply("none", 0, None, None, 0, 0)

\* app/models.py IngestionJob: the columns the orchestration reads or writes.
NewJob(user_status, n) == [status |-> user_status, total_files |-> n]

\* app/models.py IngestionFile with its column defaults. in_qdrant is the
\* column migrate_db adds to the table (app/database.py, DEFAULT 0); the
\* mapped class has no such attribute, so an insert leaves it at its default
\* and no update of the mapped class reaches it.
NewFile(batch_job_id, filename, status) ==
    [batch_job_id |-> batch_job_id,
     filename |-> filename,
     status |-> status,
     parsing_status |-> "pending",
     dataprep_status |-> "pending",
     error_message |-> None,
     parser_output_path |-> None,
     in_qdrant |-> FALSE]

Exists(f) == files[f] # NoRow

Idle == [pc |-> "idle", batch_job_id |-> None, batch_job_file_ids |-> <<>>,
         file_mapping |-> {}, i |-> 0, attempt |-> 0]

NoRequest == [pc |-> "idle", todo |-> <<>>, total |-> 0, successful |-> 0, failed |-> 0]

Init ==
    /\ jobs = [b \in BatchIds |-> NoRow]
    /\ files = [f \in FileIds |-> NoRow]
    /\ max_retries \in 1..MaxRetries
    /\ pipe = Idle
    /\ manual = NoRequest
    /\ checks = [f \in FileIds |-> <<>>]
    /\ prep = [f \in FileIds |-> <<>>]
    /\ reply = NoReply

(* ------------------------------------------------- app/routes/ingest.py *)

\* zip(batch_job_file_ids, file_list): the positions both lists have.
Zipped(batch_job_file_ids, file_list) ==
    1..(IF Len(batch_job_file_ids) < Len(file_list)
        THEN Len(batch_job_file_ids) ELSE Len(file_list))

\* The for loop of process_ingestion_pipeline: the first position after `from`
\* whose file id is in file_mapping (the others are skipped with a warning),
\* or the end of the task.
NextFile(p, from) ==
    LET todo == {j \in (from + 1)..Len(p.batch_job_file_ids) :
                    p.batch_job_file_ids[j] \in p.file_mapping}
    IN IF todo = {}
       THEN [p EXCEPT !.pc = "done", !.i = Len(p.batch_job_file_ids) + 1, !.attempt = 0]
       ELSE [p EXCEPT !.pc = "monitor", !.attempt = 0,
                      !.i = CHOOSE j \in todo : \A k \in todo : j <= k]

\* Mutant: the job record is written before the parsing service has answered
\* and stays in the store when the submission fails.
ingest_documents_keeps_job(file_list, out) ==
    /\ pipe.pc = "idle"
    /\ jobs' = [jobs EXCEPT !["b1"] = NewJob(QUEUED, Len(file_list))]
    /\ reply' = Reply("ingest", 500, None, None, 0, 0)
    /\ UNCHANGED <<files, pipe, max_retries, manual, checks, prep>>

\* POST /ingest. One successful submission is followed; its pipeline task is
\* `pipe`.
ingest_documents(file_list, out) ==
    /\ pipe.pc = "idle"
    /\ UNCHANGED <<max_retries, manual, checks, prep>>
    /\ LET batch_job_id == out.batch_job_id
           batch_job_file_ids == out.batch_job_file_ids
           zipped == Zipped(batch_job_file_ids, file_list)
           ids == {batch_job_file_ids[j] : j \in zipped}
       IN IF \E j \in 1..Len(file_list) : ~IsPdf(file_list[j])
          THEN \* a file is no PDF: HTTP 400 before anything is submitted
               /\ reply' = Reply("ingest", 400, None, None, 0, 0)
               /\ UNCHANGED <<jobs, files, pipe>>
          ELSE IF out.raises \/ batch_job_id = None
          THEN \* submit_batch_job raised, or no batch_job_id: HTTP 500
               /\ reply' = Reply("ingest", 500, None, None, 0, 0)
               /\ UNCHANGED <<jobs, files, pipe>>
          ELSE IF jobs[batch_job_id] # NoRow
          THEN \* the primary key exists: the first commit fails, HTTP 500
               /\ reply' = Reply("ingest", 500, None, None, 0, 0)
               /\ UNCHANGED <<jobs, files, pipe>>
          ELSE IF \E f \in ids : Exists(f)
          THEN \* a file id is taken (unique column): the second commit fails
               /\ jobs' = [jobs EXCEPT ![batch_job_id] = NewJob(QUEUED, Len(file_list))]
               /\ reply' = Reply("ingest", 500, None, None, 0, 0)
               /\ UNCHANGED <<files, pipe>>
          ELSE /\ jobs' = [jobs EXCEPT ![batch_job_id] = NewJob(QUEUED, Len(file_list))]
               /\ files' = [f \in FileIds |->
                              IF f \in ids
                              THEN NewFile(batch_job_id,
                                           file_list[CHOOSE j \in zipped : batch_job_file_ids[j] = f],
                                           PARSING)
                              ELSE files[f]]
               /\ pipe' = NextFile([pc |-> "monitor", batch_job_id |-> batch_job_id,
                                    batch_job_file_ids |-> batch_job_file_ids,
                                    file_mapping |-> ids, i |-> 0, attempt |-> 0], 0)
               /\ reply' = Reply("ingest", 200, batch_job_id, "queued", 0, 0)

(* ----------------------------------------------- app/background_tasks.py *)

\* The file the pipeline task is working on.
Current == pipe.batch_job_file_ids[pipe.i]

\* _update_file_status(db, file_id, status, error=...): status is always set,
\* error_message only when error is non-empty.
_update_file_status(row, status, error) ==
    IF row = NoRow THEN row
    ELSE [row EXCEPT !.status = status,
                     !.error_message = IF error # "" THEN error ELSE @]

\* Mutant: the error of one file ends the task (the handler of the outer try
\* in place of the per-file one); the files that are left are not processed.
FileErrorHandler_aborts(f, row, error) ==
    /\ files' = [files EXCEPT ![f] = _update_file_status(row, FAILED, error)]
    /\ pipe' = [pipe EXCEPT !.pc = "done", !.i = Len(pipe.batch_job_file_ids) + 1,
                            !.attempt = 0]

\* Mutant: the error of one file is written to every file record.
FileErrorHandler_marks_all(f, row, error) ==
    /\ files' = [g \in FileIds |-> _update_file_status(files[g], FAILED, error)]
    /\ pipe' = NextFile(pipe, pipe.i)

\* The except clause of process_ingestion_pipeline's per-file try: the error
\* is recorded on the file and the for loop goes on with the next file.
FileErrorHandler(f, row, error) ==
    /\ files' = [files EXCEPT ![f] = _update_file_status(row, FAILED, error)]
    /\ pipe' = NextFile(pipe, pipe.i)

\* _monitor_parsing_status, the branch parsing_status == "completed".
MonitorCompleted(row, resp) ==
    [row EXCEPT !.parsing_status = "completed",
                !.status = PARSED,
                !.parser_output_path = Get(resp, "output_path", None)]

\* _monitor_parsing_status, the branch parsing_status == "failed", up to its
\* commit.
MonitorFailed(row, resp) ==
    [row EXCEPT !.parsing_status = "failed",
                !.status = FAILED,
                !.error_message = Get(resp, "error", "Unknown error")]

\* _monitor_parsing_status, any other parsing_status: only the sub-status is
\* written.
MonitorPending(row, parsing_status) ==
    [row EXCEPT !.parsing_status = parsing_status]

\* Mutant: the except clause inside the polling loop re-raises at once.
Swallowed_never(attempt) == FALSE

\* The except clause inside the polling loop: an exception raised in the try
\* block is swallowed, and the loop goes on, while attempts remain.
Swallowed(attempt) == attempt < max_retries - 1

\* One iteration of the polling loop of _monitor_parsing_status: the status
\* check, the writes and the commit, the inner except clause, the sleep.
MonitorCheck(resp) ==
    /\ pipe.pc = "monitor"
    /\ pipe.attempt < max_retries
    /\ LET f == Current
           row == files[f]
           parsing_status == Get(resp, "status", "pending")
           again == [pipe EXCEPT !.attempt = @ + 1]
       IN /\ checks' = [checks EXCEPT ![f] = Append(@, resp)]
          /\ IF resp.raises
             THEN \* check_parsing_status raised
                  IF Swallowed(pipe.attempt)
                  THEN /\ pipe' = again
                       /\ UNCHANGED files
                  ELSE FileErrorHandler(f, row, resp.error)
             ELSE IF parsing_status = "completed"
             THEN /\ files' = [files EXCEPT ![f] = MonitorCompleted(row, resp)]
                  /\ pipe' = [pipe EXCEPT !.pc = "dataprep"]
             ELSE IF parsing_status = "failed"
             THEN \* committed, then RuntimeError raised inside the try block
                  LET failed == MonitorFailed(row, resp)
                  IN IF Swallowed(pipe.attempt)
                     THEN /\ files' = [files EXCEPT ![f] = failed]
                          /\ pipe' = again
                     ELSE FileErrorHandler(f, failed, ParsingFailedMsg(failed.error_message))
             ELSE /\ files' = [files EXCEPT ![f] = MonitorPending(row, parsing_status)]
                  /\ pipe' = again
    /\ reply' = NoReply
    /\ UNCHANGED <<jobs, max_retries, manual, prep>>

\* Mutant: the loop runs out and no TimeoutError is raised, so that
\* _monitor_parsing_status returns and the preparation call follows.
MonitorTimeout_no_raise ==
    /\ pipe.pc = "monitor"
    /\ pipe.attempt >= max_retries
    /\ pipe' = [pipe EXCEPT !.pc = "dataprep"]
    /\ reply' = NoReply
    /\ UNCHANGED <<jobs, files, max_retries, manual, checks, prep>>

\* Mutant: the loop that ran out starts over, with a fresh budget.
MonitorTimeout_restart ==
    /\ pipe.pc = "monitor"
    /\ pipe.attempt >= max_retries
    /\ pipe' = [pipe EXCEPT !.attempt = 0]
    /\ reply' = NoReply
    /\ UNCHANGED <<jobs, files, max_retries, manual, checks, prep>>

\* The polling loop ran out: TimeoutError, recorded by the per-file handler.
MonitorTimeout ==
    /\ pipe.pc = "monitor"
    /\ pipe.attempt >= max_retries
    /\ FileErrorHandler(Current, files[Current], TimeoutMsg(files[Current].filename))
    /\ reply' = NoReply
    /\ UNCHANGED <<jobs, max_retries, manual, checks, prep>>

\* Mutant: the preparation service is called before status preparing is
\* committed.
DataprepStart_no_commit ==
    /\ pipe.pc = "dataprep"
    /\ pipe' = [pipe EXCEPT !.pc = "ingest"]
    /\ reply' = NoReply
    /\ UNCHANGED <<jobs, files, max_retries, manual, checks, prep>>

\* _call_dataprep up to the call of the preparation service.
DataprepStart ==
    /\ pipe.pc = "dataprep"
    /\ files' = [files EXCEPT ![Current] =
                    [@ EXCEPT !.status = PREPARING, !.dataprep_status = "in_progress"]]
    /\ pipe' = [pipe EXCEPT !.pc = "ingest"]
    /\ reply' = NoReply
    /\ UNCHANGED <<jobs, max_retries, manual, checks, prep>>

\* Mutant: the writes that follow the return of ingest_document are lost.
DataprepCompleted_not_written(row) == row

\* _call_dataprep after ingest_document returned.
DataprepCompleted(row) ==
    [row EXCEPT !.status = COMPLETED, !.dataprep_status = "completed"]

\* Mutant: _call_dataprep's except clause writes the lifecycle status only.
DataprepFailed_status_only(row, error) ==
    [row EXCEPT !.status = FAILED]

\* _call_dataprep's except clause, after ingest_document raised.
DataprepFailed(row, error) ==
    [row EXCEPT !.status = FAILED, !.dataprep_status = "failed",
                !.error_message = error]

\* ingest_document returns or raises, and _call_dataprep finishes.
DataprepResult(ok) ==
    /\ pipe.pc = "ingest"
    /\ prep' = [prep EXCEPT ![Current] = Append(@, ok)]
    /\ IF ok
       THEN /\ files' = [files EXCEPT ![Current] = DataprepCompleted(@)]
            /\ pipe' = NextFile(pipe, pipe.i)
       ELSE FileErrorHandler(Current, DataprepFailed(files[Current], DataprepError),
                             DataprepError)
    /\ reply' = NoReply
    /\ UNCHANGED <<jobs, max_retries, manual, checks>>

(* ------------------------------------------------- app/routes/status.py *)

\* The pipeline task is suspended (at an await that gives up the event loop:
\* a remote call or the sleep between two polls), has not started or has
\* ended, so a request handler can run. _monitor_parsing_status returns and
\* _call_dataprep runs up to its remote call without such an await, so no
\* handler runs between the commit of parsed and the commit of preparing.
HandlerCanRun == pipe.pc # "dataprep"

\* The file rows of a batch.
files_records(batch_job_id) ==
    {f \in FileIds : Exists(f) /\ files[f].batch_job_id = batch_job_id}

\* Mutant: the processing rule is tried before the failed rule.
overall_status_processing_first(batch_job_id) ==
    LET recs == files_records(batch_job_id)
    IN IF \A f \in recs : files[f].status = COMPLETED THEN "completed"
       ELSE IF \E f \in recs : files[f].status \in {PARSING, PREPARING} THEN "processing"
       ELSE IF \E f \in recs : files[f].status = FAILED THEN "failed"
       ELSE jobs[batch_job_id].status

\* Mutant: any() in place of all() in the completed rule.
overall_status_any_completed(batch_job_id) ==
    LET recs == files_records(batch_job_id)
    IN IF \E f \in recs : files[f].status = COMPLETED THEN "completed"
       ELSE IF \E f \in recs : files[f].status = FAILED THEN "failed"
       ELSE IF \E f \in recs : files[f].status \in {PARSING, PREPARING} THEN "processing"
       ELSE jobs[batch_job_id].status

\* Mutant: the processing rule looks for parsing only.
overall_status_parsing_only(batch_job_id) ==
    LET recs == files_records(batch_job_id)
    IN IF \A f \in recs : files[f].status = COMPLETED THEN "completed"
       ELSE IF \E f \in recs : files[f].status = FAILED THEN "failed"
       ELSE IF \E f \in recs : files[f].status = PARSING THEN "processing"
       ELSE jobs[batch_job_id].status

\* Mutant: the processing rule looks for preparing only.
overall_status_preparing_only(batch_job_id) ==
    LET recs == files_records(batch_job_id)
    IN IF \A f \in recs : files[f].status = COMPLETED THEN "completed"
       ELSE IF \E f \in recs : files[f].status = FAILED THEN "failed"
       ELSE IF \E f \in recs : files[f].status = PREPARING THEN "processing"
       ELSE jobs[batch_job_id].status

\* "Determine overall job status".
overall_status(batch_job_id) ==
    LET recs == files_records(batch_job_id)
    IN IF \A f \in recs : files[f].status = COMPLETED THEN "completed"
       ELSE IF \E f \in recs : files[f].status = FAILED THEN "failed"
       ELSE IF \E f \in recs : files[f].status \in {PARSING, PREPARING} THEN "processing"
       ELSE jobs[batch_job_id].status

\* GET /status by batch_job_id, or else by batch_job_file_id.
get_ingestion_status(batch_job_id, batch_job_file_id) ==
    /\ HandlerCanRun
    /\ reply' =
         IF batch_job_id # None
         THEN IF jobs[batch_job_id] = NoRow
              THEN Reply("status", 404, None, None, 0, 0)
              ELSE Reply("status", 200, batch_job_id, overall_status(batch_job_id), 0, 0)
         ELSE IF batch_job_file_id # None
         THEN IF ~Exists(batch_job_file_id)
                 \/ jobs[files[batch_job_file_id].batch_job_id] = NoRow
              THEN Reply("status", 404, None, None, 0, 0)
              ELSE Reply("status", 200, files[batch_job_file_id].batch_job_id,
                         overall_status(files[batch_job_file_id].batch_job_id), 0, 0)
         ELSE Reply("status", 400, None, None, 0, 0)
    /\ UNCHANGED <<jobs, files, max_retries, pipe, manual, checks, prep>>

StatusQueries ==
    {<<b, None>> : b \in BatchIds} \cup {<<None, f>> : f \in FileIds} \cup {<<None, None>>}

(* ------------------------------------------------ app/routes/batches.py *)

\* The paths os.path.exists finds.
ExistingPaths == {"/out/output_tree.json"}

\* The entries of a manual add request: a file of the submitted batch, and a
\* file no batch submission created.
FileInfos ==
    [batch_id : {"b1"}, file_id : {"f1"}, filename : {"a.pdf"},
     output_tree_path : {None, "/gone/output_tree.json", "/out/output_tree.json"}]
    \cup
    [batch_id : {"b2"}, file_id : {"f3"}, filename : {"z.pdf"},
     output_tree_path : {"/out/output_tree.json"}]

AddRequests ==
    {<<>>} \cup {<<x>> : x \in FileInfos} \cup {<<x, y>> : x, y \in FileInfos}

\* An entry passes the two path checks and reaches the preparation call.
PathOk(file_info) ==
    file_info.output_tree_path # None /\ file_info.output_tree_path \in ExistingPaths

\* The for loop of add_files_to_qdrant over the entries `todo` that are left:
\* the entries that fail a path check are counted as failed, up to the first
\* entry that reaches the preparation call (the task waits there) or the end
\* of the request (the response is sent).
AddLoop(todo, total, successful, failed) ==
    LET reach == {j \in 1..Len(todo) : PathOk(todo[j])}
        stop == IF reach = {} THEN Len(todo) + 1
                ELSE CHOOSE j \in reach : \A k \in reach : j <= k
        nfailed == failed + (stop - 1)
    IN IF stop > Len(todo)
       THEN /\ manual' = NoRequest
            /\ reply' = Reply("add", 200, None, None, successful, nfailed)
       ELSE /\ manual' = [pc |-> "ingest", todo |-> SubSeq(todo, stop, Len(todo)),
                          total |-> total, successful |-> successful,
                          failed |-> nfailed]
            /\ reply' = NoReply

\* POST /batches/add-to-qdrant, up to its first preparation call.
add_files_to_qdrant(request) ==
    /\ HandlerCanRun
    /\ manual.pc = "idle"
    /\ IF request = <<>>
       THEN /\ reply' = Reply("add", 400, None, None, 0, 0)
            /\ UNCHANGED manual
       ELSE AddLoop(request, Len(request), 0, 0)
    /\ UNCHANGED <<jobs, files, max_retries, pipe, checks, prep>>

\* Mutant: the update of an existing record puts the file back into
\* preparation.
AddUpdatesFile_requeues(row) ==
    [row EXCEPT !.dataprep_status = "in_progress", !.status = PREPARING]

\* "Update existing record". in_qdrant and output_tree_path are no columns of
\* IngestionFile (app/models.py), so only the two mapped columns reach the
\* store.
AddUpdatesFile(row) ==
    [row EXCEPT !.dataprep_status = "completed", !.status = COMPLETED]

\* Mutant: the except clause of add_files_to_qdrant marks the file failed.
AddRecordsError_marks_failed(row, error) ==
    IF row = NoRow THEN row
    ELSE [row EXCEPT !.status = FAILED, !.dataprep_status = "failed",
                     !.error_message = error]

\* The except clause of add_files_to_qdrant, "Update file record with error".
AddRecordsError(row, error) ==
    IF row = NoRow THEN row
    ELSE [row EXCEPT !.dataprep_status = "failed", !.error_message = error]

\* ingest_document returns or raises for the entry the request waits on, and
\* the request runs on to its next preparation call or to its response.
AddIngestResult(ok) ==
    /\ HandlerCanRun
    /\ manual.pc = "ingest"
    /\ LET file_info == Head(manual.todo)
           rest == Tail(manual.todo)
           batch_id == file_info.batch_id
           file_id == file_info.file_id
       IN IF ok
          THEN /\ jobs' = IF jobs[batch_id] = NoRow
                          THEN [jobs EXCEPT ![batch_id] = NewJob(COMPLETED, 1)]
                          ELSE jobs
               /\ IF Exists(file_id)
                  THEN /\ files' = [files EXCEPT ![file_id] = AddUpdatesFile(@)]
                       /\ AddLoop(rest, manual.total,
                                  manual.successful + 1, manual.failed)
                  ELSE \* IngestionFile(..., in_qdrant=True, ...) raises TypeError:
                       \* the keyword is no attribute of the mapped class. The
                       \* except clause finds no row to update.
                       /\ UNCHANGED files
                       /\ AddLoop(rest, manual.total,
                                  manual.successful, manual.failed + 1)
          ELSE /\ files' = [files EXCEPT ![file_id] = AddRecordsError(@, DataprepError)]
               /\ UNCHANGED jobs
               /\ AddLoop(rest, manual.total,
                          manual.successful, manual.failed + 1)
    /\ UNCHANGED <<max_retries, pipe, checks, prep>>

(* --------------------------------------------------------- specifications *)

\* The steps of the pipeline task.
Pipeline ==
    \/ \E resp \in StatusResponses : MonitorCheck(resp)
    \/ MonitorTimeout
    \/ DataprepStart
    \/ \E ok \in BOOLEAN : DataprepResult(ok)

\* The orchestration of batches of one or two files: batch submission, the
\* pipeline task, the status query.
SmallUploads == {u \in Uploads : Len(u) <= 2}

Next ==
    \/ \E file_list \in SmallUploads, out \in SubmitOutcomes : ingest_documents(file_list, out)
    \/ Pipeline
    \/ \E q \in StatusQueries : get_ingestion_status(q[1], q[2])

Spec == Init /\ [][Next]_vars

\* The same with the scheduling of the pipeline task: asyncio resumes the
\* task whenever the remote call or the sleep it awaits is over, and every
\* remote call returns or raises (the clients carry a timeout), so a step of
\* the task that stays possible is taken.
SpecFair == Spec /\ WF_vars(Pipeline)

\* The orchestration of batches of three files.
LargeUploads == Uploads \ SmallUploads

NextThree ==
    \/ \E file_list \in LargeUploads, out \in SubmitOutcomes : ingest_documents(file_list, out)
    \/ Pipeline
    \/ \E b \in BatchIds : get_ingestion_status(b, None)

SpecThree == Init /\ [][NextThree]_vars

\* The orchestration of a batch of one file together with manual add
\* requests, which run concurrently with the pipeline task.
SingleUploads == {u \in Uploads : Len(u) = 1}
SingleOutcomes == {o \in SubmitOutcomes : Len(o.batch_job_file_ids) <= 1}

NextManual ==
    \/ \E file_list \in SingleUploads, out \in SingleOutcomes : ingest_documents(file_list, out)
    \/ Pipeline
    \/ \E b \in BatchIds : get_ingestion_status(b, None)
    \/ \E request \in AddRequests : add_files_to_qdrant(request)
    \/ \E ok \in BOOLEAN : AddIngestResult(ok)

SpecManual == Init /\ [][NextManual]_vars

(* ================================================================ claims *)

\* The per-file state machine of the orchestrator.
Edges ==
    {<<QUEUED, PARSING>>, <<PARSING, PARSED>>, <<PARSING, FAILED>>,
     <<PARSED, PREPARING>>, <<PREPARING, COMPLETED>>, <<PREPARING, FAILED>>}

\* The stage a status response reports (a transport error reports none).
Stage(resp) == IF resp.raises THEN "error" ELSE Get(resp, "status", "pending")
Reported(f, stage) == \E k \in 1..Len(checks[f]) : Stage(checks[f][k]) = stage
OnlyStages(f, stages) == \A k \in 1..Len(checks[f]) : Stage(checks[f][k]) \in stages
NonTerminal == {"pending", "in_progress"}
OnlyNonTerminal(f) == OnlyStages(f, NonTerminal)

\* The pipeline task has finished with file f.
Position(f) == CHOOSE j \in 1..Len(pipe.batch_job_file_ids) : pipe.batch_job_file_ids[j] = f
Finished(f) ==
    /\ f \in pipe.file_mapping
    /\ pipe.pc = "done" \/ Position(f) < pipe.i

\* C1: every change of a file's lifecycle status follows an edge of the
\* per-file state machine (none skipped, none backward).
C1_StatusFollowsEdges ==
    [][\A f \in FileIds :
          (files[f] # NoRow /\ files'[f] # NoRow /\ files'[f].status # files[f].status)
              => <<files[f].status, files'[f].status>> \in Edges]_vars

\* C2: once a file's status is failed, no later step changes it.
C2_FailedIsTerminal ==
    [][\A f \in FileIds :
          (files[f] # NoRow /\ files[f].status = FAILED) => files'[f].status = FAILED]_vars

\* The upstream error of a failed response is on the file's row, as recorded
\* by the failed branch or wrapped by the RuntimeError it raises.
UpstreamErrorRecorded(row) ==
    row.error_message \in {UpstreamError, ParsingFailedMsg(UpstreamError)}

\* C3: a status check that returns stage failed leaves the file failed with
\* the upstream error recorded, and no further status check is issued for
\* that file, whatever number of attempts remains.
C3_FailedNotRetried ==
    [][\A f \in FileIds :
          /\ (checks'[f] # checks[f] /\ Stage(checks'[f][Len(checks'[f])]) = "failed")
                => (files'[f].status = FAILED /\ UpstreamErrorRecorded(files'[f]))
          /\ Reported(f, "failed") => checks'[f] = checks[f]]_vars

\* C4: parser_output_path is non-empty exactly when the status is parsed,
\* preparing or completed.
C4_OutputPathIffParsed ==
    \A f \in FileIds :
        Exists(f) => (files[f].parser_output_path # None
                        <=> files[f].status \in {PARSED, PREPARING, COMPLETED})

\* A status query for job b was answered in the step just taken.
Returned(b) == reply.op = "status" /\ reply.code = 200 /\ reply.batch_job_id = b

\* C5: the aggregate status of a job, as the status query returns it, is
\* failed whenever one of the job's files is failed, whatever the other files
\* are.
C5_FailedWhenAnyFailed ==
    \A b \in BatchIds :
        (jobs[b] # NoRow /\ \E f \in files_records(b) : files[f].status = FAILED)
            => /\ overall_status(b) = "failed"
               /\ Returned(b) => reply.status = "failed"

\* A status query answered failed while one file is failed and a sibling is
\* still in progress.
C5_Witness ==
    /\ Returned("b1") /\ reply.status = "failed"
    /\ \E f, g \in files_records("b1") :
          files[f].status = FAILED /\ files[g].status \in {PARSING, PREPARING}

\* C6: the aggregate status of a job, as the status query returns it, is
\* completed if and only if every file of the job is completed.
C6_CompletedIffAllCompleted ==
    \A b \in BatchIds :
        jobs[b] # NoRow
            => LET all_completed == \A f \in files_records(b) : files[f].status = COMPLETED
               IN /\ overall_status(b) = "completed" <=> all_completed
                  /\ Returned(b) => (reply.status = "completed" <=> all_completed)

\* A status query answered completed for a job of two files, both completed.
C6_Witness ==
    /\ Returned("b1") /\ reply.status = "completed"
    /\ Cardinality(files_records("b1")) >= 2
    /\ \A f \in files_records("b1") : files[f].status = COMPLETED

\* C7: the aggregate status of a job, as the status query returns it, is
\* processing if and only if one of the job's files is parsing or preparing
\* and none of its files is failed.
C7_ProcessingIff ==
    \A b \in BatchIds :
        jobs[b] # NoRow
            => LET in_progress ==
                      /\ \E f \in files_records(b) : files[f].status \in {PARSING, PREPARING}
                      /\ \A f \in files_records(b) : files[f].status # FAILED
               IN /\ overall_status(b) = "processing" <=> in_progress
                  /\ Returned(b) => (reply.status = "processing" <=> in_progress)

\* A status query answered processing while one file is completed and a
\* sibling is preparing.
C7_Witness ==
    /\ Returned("b1") /\ reply.status = "processing"
    /\ \E f, g \in files_records("b1") :
          files[f].status = COMPLETED /\ files[g].status = PREPARING

\* C8: when the first max_retries - 1 status checks of a file return pending
\* and the last allowed one returns completed, _monitor_parsing_status ends
\* with the file parsed and its output path set.
C8_LastAttemptSucceeds ==
    \A f \in FileIds :
        (/\ pipe.pc = "dataprep" /\ Current = f
         /\ Len(checks[f]) = max_retries
         /\ \A k \in 1..(max_retries - 1) : Stage(checks[f][k]) = "pending"
         /\ Stage(checks[f][max_retries]) = "completed")
            => /\ files[f].status = PARSED
               /\ files[f].parser_output_path # None

\* C9: a file none of whose allowed status checks returned a terminal stage
\* ends failed with the timeout message, and the preparation service is never
\* called for it.
C9_TimeoutRecorded ==
    \A f \in FileIds :
        (Finished(f) /\ Len(checks[f]) = max_retries /\ OnlyNonTerminal(f))
            => /\ files[f].status = FAILED
               /\ files[f].error_message = TimeoutMsg(files[f].filename)
               /\ prep[f] = <<>>

\* A file polled more than once, never with a terminal stage, whose run has
\* ended.
C9_Witness ==
    \E f \in FileIds :
        /\ Finished(f) /\ OnlyNonTerminal(f)
        /\ Len(checks[f]) = max_retries /\ max_retries >= 2
        /\ files[f].status = FAILED

\* C10: in a batch of three files where A's parse completes and its
\* preparation succeeds, B's parse is reported failed and C never reaches a
\* terminal stage within the budget, the run ends with A completed, B failed
\* with the upstream error, C failed with the timeout, and the job failed.
C10_MixedBatch ==
    (/\ pipe.pc = "done"
     /\ pipe.batch_job_file_ids = <<"f1", "f2", "f3">>
     /\ pipe.file_mapping = {"f1", "f2", "f3"}
     /\ Reported("f1", "completed") /\ OnlyStages("f1", NonTerminal \cup {"completed"})
     /\ prep["f1"] = <<TRUE>>
     /\ Reported("f2", "failed") /\ OnlyStages("f2", NonTerminal \cup {"failed"})
     /\ OnlyNonTerminal("f3"))
        => /\ files["f1"].status = COMPLETED
           /\ files["f2"].status = FAILED /\ UpstreamErrorRecorded(files["f2"])
           /\ files["f3"].status = FAILED
           /\ files["f3"].error_message = TimeoutMsg(files["f3"].filename)
           /\ overall_status("b1") = "failed"

\* The last status response received for file g.
LastCheck(g) == checks[g][Len(checks[g])]

\* File g was polled to the end of its own polling loop: up to a response
\* with stage completed, or else for the whole budget.
PolledToEnd(g) ==
    /\ checks[g] # <<>>
    /\ Stage(LastCheck(g)) = "completed" \/ Len(checks[g]) = max_retries

\* The outcome the responses to file g's own calls determine: completed when
\* its last status check returned stage completed and its preparation call
\* succeeded, failed otherwise; the preparation service is called exactly
\* when the last status check returned stage completed.
OwnOutcome(g) ==
    IF checks[g] # <<>> /\ Stage(LastCheck(g)) = "completed"
    THEN Len(prep[g]) = 1
         /\ files[g].status = (IF prep[g][1] THEN COMPLETED ELSE FAILED)
    ELSE prep[g] = <<>> /\ files[g].status = FAILED

\* The processing of file f ended with an error at the per-file boundary:
\* the only other way it ends is the return of a successful preparation call.
EndedWithError(f) == Finished(f) /\ prep[f] # <<TRUE>>

CanCheck(g) ==
    /\ pipe.pc = "monitor" /\ pipe.attempt < max_retries
    /\ Current = g

\* C12: the files of one batch are processed by concurrent runs: a file of a
\* running batch that has had no status check yet does not wait for a sibling,
\* its first status check can be issued.
C12_NoWaitForSibling ==
    \A g \in FileIds :
        (/\ pipe.pc \in {"monitor", "dataprep", "ingest"}
         /\ g \in pipe.file_mapping
         /\ checks[g] = <<>>)
            => CanCheck(g)

\* C13: the number of status checks issued for one file never exceeds
\* max_retries, whatever mix of pending responses and transport errors they
\* meet.
C13_ChecksBounded ==
    \A f \in FileIds : Len(checks[f]) <= max_retries

\* A file whose run has ended used its whole budget on a mix of transport
\* errors and pending responses.
C13_Witness ==
    \E f \in FileIds :
        /\ Finished(f) /\ max_retries >= 2 /\ Len(checks[f]) = max_retries
        /\ Reported(f, "error") /\ Reported(f, "pending")
        /\ OnlyStages(f, {"error", "pending"})

\* C14: a status check that raises a transport error while attempts remain
\* leaves the file's record as it was (a file in parsing stays in parsing,
\* with its sub-statuses, output path and error message), and the next step
\* of the file's run is another status check of the same file.
C14_TransportErrorRetried ==
    [][\A f \in FileIds :
          (/\ checks'[f] # checks[f]
           /\ checks'[f][Len(checks'[f])].raises
           /\ pipe.attempt < max_retries - 1)
              => /\ files'[f] = files[f]
                 /\ files[f].status = PARSING => files'[f].status = PARSING
                 /\ CanCheck(f)']_vars

\* The first status check of a file in parsing raised a transport error, the
\* record is untouched and the next check of the file is due.
C14_Witness ==
    \E f \in FileIds :
        /\ checks[f] = <<RespRaises>> /\ CanCheck(f)
        /\ files[f] = NewFile(pipe.batch_job_id, files[f].filename, PARSING)

\* C15: while the preparation service is being called for a file, the store
\* shows the file as preparing with the parsed output path recorded, and the
\* status query of its job lists it so.
C15_PreparingCommitted ==
    pipe.pc = "ingest"
        => /\ Current \in files_records(pipe.batch_job_id)
           /\ files[Current].status = PREPARING
           /\ files[Current].dataprep_status = "in_progress"
           /\ files[Current].parsing_status = "completed"
           /\ files[Current].parser_output_path # None

\* C16: a file whose preparation call by the pipeline succeeded is completed,
\* its preparation sub-status is completed and its in-vector-store flag is
\* true.
C16_PrepSuccessRecorded ==
    \A f \in FileIds :
        prep[f] = <<TRUE>>
            => /\ files[f].status = COMPLETED
               /\ files[f].dataprep_status = "completed"
               /\ files[f].in_qdrant = TRUE

\* C17: a file whose preparation call by the pipeline failed is failed, its
\* preparation sub-status is failed, the error's message is recorded, and the
\* preparation service was called once for it.
C17_PrepFailureRecorded ==
    \A f \in FileIds :
        (prep[f] # <<>> /\ ~prep[f][1])
            => /\ files[f].status = FAILED
               /\ files[f].dataprep_status = "failed"
               /\ files[f].error_message = DataprepError
               /\ Len(prep[f]) = 1

\* The run of a file has ended after its preparation call failed.
C17_Witness ==
    \E f \in FileIds :
        /\ Finished(f) /\ prep[f] = <<FALSE>>
        /\ files[f].status = FAILED /\ files[f].parser_output_path = OutputPath

\* A batch submission whose call of the parsing service raises or returns no
\* batch_job_id.
SubmitFails ==
    /\ pipe.pc = "idle"
    /\ \E file_list \in Uploads, out \in SubmitOutcomes :
          /\ \A j \in 1..Len(file_list) : IsPdf(file_list[j])
          /\ out.raises \/ out.batch_job_id = None
          /\ ingest_documents(file_list, out)

\* C18: a submission whose call of the parsing service raises or returns no
\* job identifier fails, and leaves the store as it was: no job record, no
\* file record, no pipeline task.
C18_FailedSubmitNoTrace ==
    [][SubmitFails
          => /\ reply'.op = "ingest" /\ reply'.code = 500
             /\ UNCHANGED <<jobs, files, pipe>>]_vars

\* A submission has just failed with the store empty and no task started.
C18_Witness ==
    /\ reply.op = "ingest" /\ reply.code = 500
    /\ \A b \in BatchIds : jobs[b] = NoRow
    /\ \A f \in FileIds : files[f] = NoRow
    /\ pipe = Idle

\* C19: after a successful submission of N files the store holds the job
\* record of the returned id (N is its total_files) and exactly N file
\* records of that job, however many file ids the parsing service returned.
C19_OneRecordPerFile ==
    (reply.op = "ingest" /\ reply.code = 200)
        => /\ jobs[reply.batch_job_id] # NoRow
           /\ Cardinality(files_records(reply.batch_job_id))
                 = jobs[reply.batch_job_id].total_files

\* The entry of a manual add request is handled in this step.
AddHandled(f) ==
    /\ manual.pc = "ingest" /\ Head(manual.todo).file_id = f
    /\ manual' # manual

\* C20: a manual add of a file id leaves the store with the same file
\* records, one per file id as before, and a file that was completed when it
\* is added again keeps its record with status completed.
C20_ReaddKeepsOneRecord ==
    [][\A f \in FileIds :
          AddHandled(f)
              => /\ files[f] # NoRow => files'[f] # NoRow
                 /\ \A g \in FileIds \ {f} : files'[g] = files[g]
                 /\ (files[f] # NoRow /\ files[f].status = COMPLETED)
                        => files'[f].status = COMPLETED]_vars

\* A request that added the same file twice has been answered; the file had
\* been completed by the pipeline and is completed.
C20_Witness ==
    /\ reply.op = "add" /\ reply.code = 200 /\ reply.successful = 2
    /\ prep["f1"] = <<TRUE>>
    /\ files["f1"].status = COMPLETED

\* C21: a file record whose status is completed never changes its status
\* again, whatever the interleaving of the file's pipeline run with manual
\* add requests for the same file id.
C21_CompletedIsTerminal ==
    [][\A f \in FileIds :
          (files[f] # NoRow /\ files[f].status = COMPLETED)
              => (files'[f] # NoRow /\ files'[f].status = COMPLETED)]_vars

\* The pipeline task takes a step.
PipelineStep ==
    /\ pipe.pc \in {"monitor", "dataprep", "ingest"}
    /\ pipe' # pipe \/ checks' # checks \/ prep' # prep

\* C22: a step of the pipeline task on file f writes the record of f only:
\* the records of the other files and the job records, stored status
\* included, are as before.
C22_WritesOnlyOwnRecord ==
    [][PipelineStep
          => /\ jobs' = jobs
             /\ \A g \in FileIds \ {Current} : files'[g] = files[g]]_vars

\* The second file of a batch is being prepared; the first one is completed
\* and the job record is as the submission wrote it.
C22_Witness ==
    /\ pipe.pc = "ingest" /\ pipe.batch_job_file_ids = <<"f1", "f2">> /\ pipe.i = 2
    /\ files["f1"].status = COMPLETED /\ files["f2"].status = PREPARING
    /\ jobs["b1"] = NewJob(QUEUED, 2)

\* C23: when the preparation call of a manual add succeeds for a file id, the
\* record of that id exists afterwards, completed, with preparation sub-status
\* completed and the in-vector-store flag true, whether or not it existed
\* before, and the job record of the given batch id exists.
C23_AddSuccessRecorded ==
    [][AddIngestResult(TRUE)
          => LET file_info == Head(manual.todo)
             IN /\ jobs'[file_info.batch_id] # NoRow
                /\ files'[file_info.file_id] # NoRow
                /\ files'[file_info.file_id].status = COMPLETED
                /\ files'[file_info.file_id].dataprep_status = "completed"
                /\ files'[file_info.file_id].in_qdrant = TRUE]_vars

\* The entries of a request that are counted or still to be handled.
Accounted == manual.successful + manual.failed + Len(manual.todo)

\* C24: a manual add that fails for one entry (no output path, a path that
\* does not exist, a failing preparation call) creates no file record and
\* leaves the lifecycle status of an existing one as it was; the request goes
\* on with the entries that are left, and the successful and failed counts of
\* its response sum to the number of its entries.
C24_AddFailureCounted ==
    [][/\ \A request \in AddRequests :
             add_files_to_qdrant(request)
                => /\ files' = files
                   /\ reply'.code = 200
                         => reply'.successful + reply'.failed = Len(request)
                   /\ manual'.pc = "ingest" => Accounted' = Len(request)
       /\ AddIngestResult(FALSE)
             => LET f == Head(manual.todo).file_id
                IN /\ files[f] = NoRow => files'[f] = NoRow
                   /\ files[f] # NoRow => files'[f].status = files[f].status
                   /\ \A g \in FileIds \ {f} : files'[g] = files[g]
       /\ manual.pc = "ingest"
             => /\ manual'.pc = "ingest" => Accounted' = manual.total
                /\ reply'.op = "add"
                      => reply'.successful + reply'.failed = manual.total]_vars

\* A request of two entries has been answered with both counted as failed:
\* the preparation call for the file the pipeline is polling failed, and the
\* record is still in parsing.
C24_Witness ==
    /\ reply.op = "add" /\ reply.code = 200
    /\ reply.successful = 0 /\ reply.failed = 2
    /\ files["f1"] # NoRow /\ files["f1"].status = PARSING
    /\ files["f1"].dataprep_status = "failed"
    /\ files["f3"] = NoRow

\* C25: once the status query of a job answers processing, it does not
\* answer queued afterwards: the fallback to the job's stored status is taken
\* only before any file has progressed.
C25_NoQueuedAfterProcessing ==
    \A b \in BatchIds :
        []((Returned(b) /\ reply.status = "processing")
              => [](Returned(b) => reply.status # "queued"))

\* A status query answers processing for a job whose file has progressed from
\* parsing to preparing.
C25_Witness ==
    /\ Returned("b1") /\ reply.status = "processing"
    /\ pipe.pc = "ingest" /\ files[Current].status = PREPARING

\* C26: the status query does not answer completed for a job that has no
\* file records.
C26_EmptyJobNotCompleted ==
    \A b \in BatchIds :
        (Returned(b) /\ files_records(b) = {}) => reply.status # "completed"

\* C27: a file record whose status is completed carries no error message.
C27_CompletedHasNoError ==
    \A f \in FileIds :
        (Exists(f) /\ files[f].status = COMPLETED) => files[f].error_message = None

\* C28: a file record whose status is completed has preparation sub-status
\* completed, after any pipeline steps and manual adds, successful or failing.
C28_CompletedMeansPrepared ==
    \A f \in FileIds :
        (Exists(f) /\ files[f].status = COMPLETED) => files[f].dataprep_status = "completed"

\* C29: every pipeline task ends, and when it has ended every file record of
\* its batch is completed or failed: none is left in parsing, parsed or
\* preparing.
C29_RunTerminates ==
    /\ (pipe.pc # "idle") ~> (pipe.pc = "done")
    /\ [](pipe.pc = "done"
            => \A f \in files_records(pipe.batch_job_id) :
                  files[f].status \in {COMPLETED, FAILED})

\* The task of a batch of two files has ended: the first file used up its
\* poll budget, the second one is completed.
C29_Witness ==
    /\ pipe.pc = "done" /\ files_records(pipe.batch_job_id) = {"f1", "f2"}
    /\ Len(checks["f1"]) = max_retries /\ OnlyNonTerminal("f1")
    /\ files["f1"].status = FAILED /\ files["f2"].status = COMPLETED

\* C30: the preparation service is called for a file only after a status
\* check of the file returned completed, and only when the file's stored
\* parser_output_path is set.
C30_PrepOnlyWithPath ==
    [][\A f \in FileIds :
          prep'[f] # prep[f]
              => /\ Reported(f, "completed")
                 /\ files[f].parser_output_path # None]_vars

====
